---- MODULE Spec2Model ----
(***************************************************************************)
(* Employee CRUD service (src/app.py): the employee table, the validator   *)
(* and the five HTTP handlers.  Strings are sequences of one-character     *)
(* strings so that strip(), lower() and the e-mail pattern are computed,   *)
(* not assumed.  The table is a set of rows; Employee.query.all() reads it *)
(* in rowid (= id) order, as SQLite's table scan does.                     *)
(***************************************************************************)
EXTENDS Integers, Sequences, FiniteSets, TLC

VARIABLES
    employees,  \* the employee table: a set of rows
    clock,      \* datetime.utcnow(), counted in successful creates
    req,        \* the request being answered, NoRequest between requests
    resp,       \* the response to req
    before,     \* the table as it was when req arrived
    api_key,        \* GEMINI_API_KEY is set
    pc,             \* where get_ai_summary stands
    employees_data, \* its argument
    calls,          \* the generate_content calls made so far, with outcomes
    listed,         \* what genai.list_models() did, once called
    remaining,      \* what "for model in available_models" has yet to see
    last_error,     \* its variable last_error
    summary         \* the value it returned

ai_vars == <<api_key, pc, employees_data, calls, listed, remaining,
             last_error, summary>>

vars == <<employees, clock, req, resp, before, ai_vars>>

(* ---------------------------------------------------------------- bounds *)
\* number of successful creates explored (bounds created_at and the ids)
MaxCreates == 2

\* db.String(100) / validate_employee_data limits
MaxNameLen == 100
MaxPositionLen == 100

\* email = db.Column(db.String(120), ...)
MaxEmailLen == 120

(* --------------------------------------------------------------- strings *)
UpperChars == <<"A","B","C","D","E","F","G","H","I","J","K","L","M",
                "N","O","P","Q","R","S","T","U","V","W","X","Y","Z">>
LowerChars == <<"a","b","c","d","e","f","g","h","i","j","k","l","m",
                "n","o","p","q","r","s","t","u","v","w","x","y","z">>
Digits == {"0","1","2","3","4","5","6","7","8","9"}
Letters == {UpperChars[i] : i \in 1..26} \cup {LowerChars[i] : i \in 1..26}

\* characters removed by str.strip() with no argument: the ASCII ones a
\* request body of this model can carry
Whitespace == {" ", "\t", "\n", "\r"}

\* str.strip()
strip(s) ==
    LET keep == {i \in 1..Len(s) : s[i] \notin Whitespace}
    IN  IF keep = {} THEN <<>>
        ELSE LET lo == CHOOSE i \in keep : \A j \in keep : i <= j
                 hi == CHOOSE i \in keep : \A j \in keep : j <= i
             IN  SubSeq(s, lo, hi)

\* str.lower()
lower(s) ==
    [i \in 1..Len(s) |->
        IF \E k \in 1..26 : UpperChars[k] = s[i]
        THEN LowerChars[CHOOSE k \in 1..26 : UpperChars[k] = s[i]]
        ELSE s[i]]

\* character classes of the pattern in validate_email
LocalChars == Letters \cup Digits \cup {".", "_", "%", "+", "-"}
DomainChars == Letters \cup Digits \cup {".", "-"}

\* re.match(r'^[a-zA-Z0-9._%+-]+@[a-zA-Z0-9.-]+\.[a-zA-Z]{2,}$', email);
\* '$' also matches just before a newline that ends the string
validate_email(email) ==
    LET n == Len(email)
        ends == {n} \cup (IF n > 0 /\ email[n] = "\n" THEN {n - 1} ELSE {})
    IN  \E e \in ends : \E at \in 2..e : \E dot \in (at + 2)..e :
            /\ \A i \in 1..(at - 1) : email[i] \in LocalChars
            /\ email[at] = "@"
            /\ \A i \in (at + 1)..(dot - 1) : email[i] \in DomainChars
            /\ email[dot] = "."
            /\ e - dot >= 2
            /\ \A i \in (dot + 1)..e : email[i] \in Letters

(* ----------------------------------------------------------------- table *)
\* class Employee(db.Model): one row
Employee(id, name, email, position, created_at) ==
    [id |-> id, name |-> name, email |-> email, position |-> position,
     created_at |-> created_at]

ids(tbl) == {r.id : r \in tbl}

\* Employee.query.get(employee_id); callers test existence first
query_get(tbl, employee_id) == CHOOSE r \in tbl : r.id = employee_id

\* the row with the smallest id of a non-empty set: Query.first()
first(rows) == CHOOSE r \in rows : \A o \in rows : r.id <= o.id

\* Employee.query.filter_by(name=name): the matching rows
filter_by_name(tbl, name) == {r \in tbl : r.name = name}

\* Employee.query.filter_by(email=email): the matching rows
filter_by_email(tbl, email) == {r \in tbl : r.email = email}

RECURSIVE by_id(_)
by_id(rows) ==
    IF rows = {} THEN <<>>
    ELSE LET r == first(rows) IN <<r>> \o by_id(rows \ {r})

\* the rows newest first, as order_by(Employee.id.desc()) would read them
query_all_newest_first(tbl) ==
    [i \in 1..Cardinality(tbl) |-> by_id(tbl)[Cardinality(tbl) + 1 - i]]

\* Employee.query.all(): the table scan, in rowid order
query_all(tbl) == by_id(tbl)

\* INTEGER PRIMARY KEY without AUTOINCREMENT: largest rowid in use plus one
next_id(tbl) ==
    IF tbl = {} THEN 1
    ELSE (CHOOSE m \in ids(tbl) : \A i \in ids(tbl) : i <= m) + 1

\* the schema had "unique=True" been left off the email column
IntegrityError_name_only(tbl) ==
    \E r1 \in tbl : \E r2 \in tbl : r1.id # r2.id /\ r1.name = r2.name

\* unique=True on name and on email: does the table break a constraint?
IntegrityError(tbl) ==
    \E r1 \in tbl : \E r2 \in tbl :
        /\ r1.id # r2.id
        /\ (r1.name = r2.name \/ r1.email = r2.email)

(* ------------------------------------------------------------- payloads *)
Keys == {"name", "email", "position"}

\* dict.get(key) is truthy: the key is present and its string is not empty
truthy(data, key) == key \in DOMAIN data /\ data[key] # <<>>

\* data.get(key, '')
get_or_empty(data, key) == IF key \in DOMAIN data THEN data[key] ELSE <<>>

EmptyData == [k \in {} |-> <<>>]

(* ------------------------------------------------------------- responses *)
NoRows == <<>>
NoErrors == <<>>

Err(kind) == [kind |-> kind, position |-> <<>>]
NameConflict(position) == [kind |-> "name_has_position", position |-> position]

Response(status, data, errors) ==
    [status |-> status, data |-> data, count |-> Len(data), errors |-> errors]

(* ------------------------------------------------------------- validator *)
when(cond, error) == IF cond THEN <<error>> ELSE NoErrors

\* the checks with the e-mail format check left out
field_errors_any_format(data, check_required) ==
    (IF check_required
     THEN when(~truthy(data, "name") \/ strip(data["name"]) = <<>>,
               Err("name_required"))
          \o when(~truthy(data, "email") \/ strip(data["email"]) = <<>>,
                  Err("email_required"))
          \o when(~truthy(data, "position") \/ strip(data["position"]) = <<>>,
                  Err("position_required"))
     ELSE NoErrors)
    \o when(truthy(data, "name") /\ Len(data["name"]) > MaxNameLen,
            Err("name_too_long"))
    \o when(truthy(data, "position") /\ Len(data["position"]) > MaxPositionLen,
            Err("position_too_long"))

\* validate_employee_data, the required / format / length checks
field_errors(data, check_required) ==
    (IF check_required
     THEN when(~truthy(data, "name") \/ strip(data["name"]) = <<>>,
               Err("name_required"))
          \o when(~truthy(data, "email") \/ strip(data["email"]) = <<>>,
                  Err("email_required"))
          \o when(~truthy(data, "position") \/ strip(data["position"]) = <<>>,
                  Err("position_required"))
     ELSE NoErrors)
    \o when(truthy(data, "email") /\ ~validate_email(data["email"]),
            Err("invalid_email"))
    \o when(truthy(data, "name") /\ Len(data["name"]) > MaxNameLen,
            Err("name_too_long"))
    \o when(truthy(data, "position") /\ Len(data["position"]) > MaxPositionLen,
            Err("position_too_long"))

\* the row being updated is not told apart from the others
is_own_row_never(existing_employee, employee_id) == FALSE

\* "if employee_id and existing_employee.id == employee_id: pass";
\* employee_id is 0 where the code passes None
is_own_row(existing_employee, employee_id) ==
    employee_id # 0 /\ existing_employee.id = employee_id

\* validate_employee_data, "Check if employee name already has a position"
name_position_errors(tbl, data, employee_id) ==
    IF ~truthy(data, "name") THEN NoErrors
    ELSE LET found == filter_by_name(tbl, strip(data["name"]))
         IN  IF found = {} THEN NoErrors
             ELSE LET existing_employee == first(found)
                  IN  IF is_own_row(existing_employee, employee_id)
                      THEN NoErrors
                      ELSE when(lower(existing_employee.position)
                                  # lower(strip(get_or_empty(data, "position"))),
                                NameConflict(existing_employee.position))

validate_employee_data(tbl, data, check_required, employee_id) ==
    field_errors(data, check_required)
    \o name_position_errors(tbl, data, employee_id)

(* -------------------------------------------------------------- handlers *)
\* what a handler does: the response it sends and the table it leaves
Outcome(response, tbl) == [resp |-> response, tbl |-> tbl]

\* a commit whose failure leaves the refused write in the table
commit_keeps_write(tbl, written, ok) ==
    IF IntegrityError(written)
    THEN Outcome(Response(500, NoRows, <<Err("integrity_error")>>), written)
    ELSE Outcome(ok, written)

\* "except Exception as e: db.session.rollback(); return ..., 500" after
\* db.session.commit() raised for a reason of the storage's own
storage_error(tbl) ==
    Outcome(Response(500, NoRows, <<Err("storage_error")>>), tbl)

\* db.session.commit() inside try / except: rollback and 500 when a unique
\* constraint is broken, else the write is kept and ok is sent
commit(tbl, written, ok) ==
    IF IntegrityError(written)
    THEN Outcome(Response(500, NoRows, <<Err("integrity_error")>>), tbl)
    ELSE Outcome(ok, written)

\* the row with the email stored as sent, neither trimmed nor lowercased
new_employee_raw_email(tbl, data, now) ==
    Employee(next_id(tbl), strip(data["name"]), data["email"],
             strip(data["position"]), now)

\* create_employee, "new_employee = Employee(...)": the row a POST stores
new_employee(tbl, data, now) ==
    Employee(next_id(tbl), strip(data["name"]), lower(strip(data["email"])),
             strip(data["position"]), now)

\* POST /api/employees
create_employee(tbl, data, now) ==
    IF DOMAIN data = {}
    THEN Outcome(Response(400, NoRows, <<Err("no_data")>>), tbl)
    ELSE LET errors == validate_employee_data(tbl, data, TRUE, 0)
         IN
         IF errors # NoErrors
         THEN Outcome(Response(400, NoRows, errors), tbl)
         ELSE IF filter_by_email(tbl, data["email"]) # {}
         THEN Outcome(Response(409, NoRows, <<Err("email_exists")>>), tbl)
         ELSE LET existing_name == filter_by_name(tbl, strip(data["name"]))
              IN
              IF existing_name # {}
              THEN Outcome(Response(409, NoRows,
                       <<NameConflict(first(existing_name).position)>>), tbl)
              ELSE LET row == new_employee(tbl, data, now)
                   IN  commit(tbl, tbl \cup {row},
                              Response(201, <<row>>, NoErrors))

\* GET /api/employees
get_employees(tbl) == Outcome(Response(200, query_all(tbl), NoErrors), tbl)

\* GET /api/employees/<id>
get_employee(tbl, employee_id) ==
    IF employee_id \notin ids(tbl)
    THEN Outcome(Response(404, NoRows, <<Err("not_found")>>), tbl)
    ELSE Outcome(Response(200, <<query_get(tbl, employee_id)>>, NoErrors), tbl)

\* PUT had the uniqueness of names been left out of it: the name is neither
\* looked up before the write nor refused by the column
update_employee_any_name(tbl, employee_id, data) ==
    IF employee_id \notin ids(tbl)
    THEN Outcome(Response(404, NoRows, <<Err("not_found")>>), tbl)
    ELSE IF DOMAIN data = {}
    THEN Outcome(Response(400, NoRows, <<Err("no_data")>>), tbl)
    ELSE LET employee == query_get(tbl, employee_id)
             updated ==
                 Employee(employee.id,
                          IF "name" \in DOMAIN data
                            THEN strip(data["name"]) ELSE employee.name,
                          IF "email" \in DOMAIN data
                            THEN lower(strip(data["email"]))
                            ELSE employee.email,
                          IF "position" \in DOMAIN data
                            THEN strip(data["position"])
                            ELSE employee.position,
                          employee.created_at)
             written == (tbl \ {employee}) \cup {updated}
         IN
         IF field_errors(data, FALSE) # NoErrors
         THEN Outcome(Response(400, NoRows, field_errors(data, FALSE)), tbl)
         ELSE IF /\ "email" \in DOMAIN data
                 /\ data["email"] # employee.email
                 /\ filter_by_email(tbl, data["email"]) # {}
         THEN Outcome(Response(409, NoRows, <<Err("email_exists")>>), tbl)
         ELSE IF \E r \in written : r.id # updated.id /\ r.email = updated.email
         THEN Outcome(Response(500, NoRows, <<Err("integrity_error")>>), tbl)
         ELSE Outcome(Response(200, <<updated>>, NoErrors), written)

\* PUT /api/employees/<id>
update_employee(tbl, employee_id, data) ==
    IF employee_id \notin ids(tbl)
    THEN Outcome(Response(404, NoRows, <<Err("not_found")>>), tbl)
    ELSE IF DOMAIN data = {}
    THEN Outcome(Response(400, NoRows, <<Err("no_data")>>), tbl)
    ELSE LET employee == query_get(tbl, employee_id)
             errors == validate_employee_data(tbl, data, FALSE, employee_id)
         IN
         IF errors # NoErrors
         THEN Outcome(Response(400, NoRows, errors), tbl)
         ELSE IF /\ "email" \in DOMAIN data
                 /\ data["email"] # employee.email
                 /\ filter_by_email(tbl, data["email"]) # {}
         THEN Outcome(Response(409, NoRows, <<Err("email_exists")>>), tbl)
         ELSE IF /\ "name" \in DOMAIN data
                 /\ strip(data["name"]) # employee.name
                 /\ filter_by_name(tbl, strip(data["name"])) # {}
         THEN Outcome(Response(409, NoRows,
                  <<NameConflict(first(filter_by_name(tbl,
                                     strip(data["name"]))).position)>>), tbl)
         ELSE LET updated ==
                      Employee(employee.id,
                               IF "name" \in DOMAIN data
                                 THEN strip(data["name"]) ELSE employee.name,
                               IF "email" \in DOMAIN data
                                 THEN lower(strip(data["email"]))
                                 ELSE employee.email,
                               IF "position" \in DOMAIN data
                                 THEN strip(data["position"])
                                 ELSE employee.position,
                               employee.created_at)
              IN  commit(tbl, (tbl \ {employee}) \cup {updated},
                         Response(200, <<updated>>, NoErrors))

\* DELETE without the look-up: nothing is found missing
delete_employee_unchecked(tbl, employee_id) ==
    commit(tbl, {r \in tbl : r.id # employee_id},
           Response(200, NoRows, NoErrors))

\* DELETE emptying the table, as Employee.query.delete() would
delete_employee_all(tbl, employee_id) ==
    IF employee_id \notin ids(tbl)
    THEN Outcome(Response(404, NoRows, <<Err("not_found")>>), tbl)
    ELSE commit(tbl, {}, Response(200, NoRows, NoErrors))

\* DELETE /api/employees/<id>
delete_employee(tbl, employee_id) ==
    IF employee_id \notin ids(tbl)
    THEN Outcome(Response(404, NoRows, <<Err("not_found")>>), tbl)
    ELSE commit(tbl, tbl \ {query_get(tbl, employee_id)},
                Response(200, NoRows, NoErrors))

(* ---------------------------------------------------------------- inputs *)
\* request bodies: each key absent, or one of a few strings that exercise
\* blank values, surrounding whitespace, letter case and the e-mail pattern
NameInputs == { <<>>, <<" ">>, <<"a">>, <<" ","b"," ">> }

EmailInputs == { <<>>, <<" ">>, <<"b","a","d">>,
                 <<"x","@","y",".","c","c">>,
                 <<"X","@","y",".","c","c">>,
                 <<"x","@","y",".","c","c","\n">>,
                 <<"z","@","y",".","c","c">> }

PositionInputs == { <<>>, <<" ">>, <<"p">>, <<" ","Q"," ">> }

InputsOf(key) ==
    IF key = "name" THEN NameInputs
    ELSE IF key = "email" THEN EmailInputs ELSE PositionInputs

\* bodies sent to POST
Payloads ==
    UNION { { d \in [present -> NameInputs \cup EmailInputs \cup PositionInputs] :
                \A k \in present : d[k] \in InputsOf(k) }
            : present \in SUBSET Keys }

\* bodies sent to PUT: of two blank names, or two e-mails the pattern
\* rejects, one is sent; the position, when sent, is not blank
UpdatePayloads ==
    { d \in Payloads :
        /\ "name" \in DOMAIN d => d["name"] # <<" ">>
        /\ "email" \in DOMAIN d => d["email"] # <<"b","a","d">>
        /\ "position" \in DOMAIN d => strip(d["position"]) # <<>> }

\* ids a request may name: every id a row can have
IdInputs == 1..MaxCreates

Request(op, id, data) == [op |-> op, id |-> id, data |-> data]

(* ----------------------------------------------------------- the machine *)
NoRequest == Request("none", 0, EmptyData)
NoResponse == Response(0, NoRows, NoErrors)

\* get_ai_summary has not been called
NoSummary == [kind |-> "none"]
NotListed == [status |-> "none", models |-> <<>>, error |-> <<>>]

NotSummarising ==
    /\ pc = "idle"
    /\ employees_data = <<>>
    /\ calls = <<>>
    /\ listed = NotListed
    /\ remaining = <<>>
    /\ last_error = <<>>
    /\ summary = NoSummary

\* db.create_all() on an empty database, no request served yet
Init ==
    /\ employees = {}
    /\ clock = 0
    /\ req = NoRequest
    /\ resp = NoResponse
    /\ before = {}
    /\ api_key = FALSE
    /\ NotSummarising

\* the development server serves one request at a time: a handler runs
\* only when no response is pending
Waiting == req = NoRequest

\* a handler has run: the table it leaves, the response it sends, and (for
\* the properties below) the request and the table it started from
Handled(request, out) ==
    /\ employees' = out.tbl
    /\ req' = request
    /\ resp' = out.resp
    /\ before' = employees
    /\ UNCHANGED ai_vars

Create ==
    /\ Waiting
    /\ \E data \in Payloads :
          LET out == create_employee(employees, data, clock + 1)
          IN  /\ out.resp.status = 201 => clock < MaxCreates
              /\ Handled(Request("create", 0, data), out)
              /\ clock' = IF out.resp.status = 201 THEN clock + 1 ELSE clock

List ==
    /\ Waiting
    /\ Handled(Request("list", 0, EmptyData), get_employees(employees))
    /\ UNCHANGED clock

Get ==
    /\ Waiting
    /\ \E id \in IdInputs :
          Handled(Request("get", id, EmptyData), get_employee(employees, id))
    /\ UNCHANGED clock

Update ==
    /\ Waiting
    /\ \E id \in IdInputs : \E data \in UpdatePayloads :
          Handled(Request("update", id, data),
                  update_employee(employees, id, data))
    /\ UNCHANGED clock

Delete ==
    /\ Waiting
    /\ \E id \in IdInputs :
          Handled(Request("delete", id, EmptyData),
                  delete_employee(employees, id))
    /\ UNCHANGED clock

\* the response has gone out; the server waits for the next request
Served ==
    /\ ~Waiting
    /\ req' = NoRequest
    /\ resp' = NoResponse
    /\ before' = employees
    /\ UNCHANGED <<employees, clock, ai_vars>>

Next == Create \/ List \/ Get \/ Update \/ Delete \/ Served

Spec == Init /\ [][Next]_vars

(* ------------------------------------------------------- long values *)
\* values one character longer than the columns are declared to hold, and
\* a name that is too long only with the blank before it
LongName == [i \in 1..(MaxNameLen + 1) |-> "n"]
PaddedName == <<" ">> \o [i \in 1..MaxNameLen |-> "m"]
LongPosition == [i \in 1..(MaxPositionLen + 1) |-> "q"]
LongEmail == [i \in 1..(MaxEmailLen - 4) |-> "e"] \o <<"@", "y", ".", "c", "c">>

LongInputsOf(key) ==
    IF key = "name" THEN {<<"a">>, LongName, PaddedName}
    ELSE IF key = "email" THEN {<<"x","@","y",".","c","c">>, LongEmail}
    ELSE {<<"p">>, LongPosition}

LongPayloads ==
    UNION { { d \in [present -> UNION {LongInputsOf(k) : k \in Keys}] :
                \A k \in present : d[k] \in LongInputsOf(k) }
            : present \in SUBSET Keys }

CreateLong ==
    /\ Waiting
    /\ \E data \in LongPayloads :
          LET out == create_employee(employees, data, clock + 1)
          IN  /\ out.resp.status = 201 => clock < MaxCreates
              /\ Handled(Request("create", 0, data), out)
              /\ clock' = IF out.resp.status = 201 THEN clock + 1 ELSE clock

UpdateLong ==
    /\ Waiting
    /\ \E id \in IdInputs : \E data \in LongPayloads :
          Handled(Request("update", id, data),
                  update_employee(employees, id, data))
    /\ UNCHANGED clock

NextLong == CreateLong \/ UpdateLong \/ List \/ Get \/ Delete \/ Served

SpecLong == Init /\ [][NextLong]_vars

(* ------------------------------------------------ writes that fail to commit *)
\* the handler reached db.session.commit() with a write the constraints
\* accept, and the commit raised
CreateFails ==
    /\ Waiting
    /\ \E data \in Payloads :
          /\ create_employee(employees, data, clock + 1).resp.status = 201
          /\ Handled(Request("create", 0, data), storage_error(employees))
    /\ UNCHANGED clock

UpdateFails ==
    /\ Waiting
    /\ \E id \in IdInputs : \E data \in UpdatePayloads :
          /\ update_employee(employees, id, data).resp.status = 200
          /\ Handled(Request("update", id, data), storage_error(employees))
    /\ UNCHANGED clock

DeleteFails ==
    /\ Waiting
    /\ \E id \in IdInputs :
          /\ delete_employee(employees, id).resp.status = 200
          /\ Handled(Request("delete", id, EmptyData), storage_error(employees))
    /\ UNCHANGED clock

NextFault == Next \/ CreateFails \/ UpdateFails \/ DeleteFails

SpecFault == Init /\ [][NextFault]_vars

(* ------------------------------------------------------ get_ai_summary *)
\* "needle in text"
contains(text, needle) ==
    \E i \in 1..(Len(text) - Len(needle) + 1) :
        SubSeq(text, i, i + Len(needle) - 1) = needle

\* the strings returned without a call to the service
NoDataSummary == [kind |-> "no_employee_data"]
NoKeySummary == [kind |-> "api_key_not_configured"]

\* "return response.text.strip()"
TextSummary(text) == [kind |-> "text", text |-> strip(text)]

\* the positions of employees_data in the order position_count meets them
RECURSIVE positions_in_order(_)
positions_in_order(data) ==
    IF data = <<>> THEN <<>>
    ELSE LET init == positions_in_order(SubSeq(data, 1, Len(data) - 1))
             p == data[Len(data)].position
         IN  IF \E i \in 1..Len(init) : init[i] = p THEN init
             ELSE Append(init, p)

\* position_count[position]
position_count(data, position) ==
    Cardinality({i \in 1..Len(data) : data[i].position = position})

\* max(position_count, key=position_count.get): the first of the largest
largest_role(data) ==
    LET ps == positions_in_order(data)
        best == CHOOSE i \in 1..Len(ps) :
                   /\ \A j \in 1..Len(ps) :
                         position_count(data, ps[j]) <= position_count(data, ps[i])
                   /\ \A j \in 1..(i - 1) :
                         position_count(data, ps[j]) < position_count(data, ps[i])
    IN  ps[best]

\* "Final fallback": the templated paragraph and the figures it quotes
FallbackSummary(data) ==
    [kind |-> "fallback",
     total |-> Len(data),
     roles |-> Len(positions_in_order(data)),
     largest |-> largest_role(data),
     largest_count |-> position_count(data, largest_role(data)),
     diversity |-> IF Len(positions_in_order(data)) >= 3
                   THEN "Good" ELSE "Could be improved"]

\* the outer "except Exception as e": the message chosen for str(e)
user_message(error_msg) ==
    IF contains(error_msg, <<"A","P","I","_","K","E","Y","_","I","N","V","A","L","I","D">>)
    THEN [kind |-> "api_key_invalid"]
    ELSE IF contains(lower(error_msg), <<"q","u","o","t","a">>)
    THEN [kind |-> "quota_exceeded"]
    ELSE IF \/ contains(lower(error_msg), <<"l","o","c","a","t","i","o","n">>)
            \/ contains(lower(error_msg), <<"r","e","g","i","o","n">>)
    THEN [kind |-> "region_not_supported"]
    ELSE [kind |-> "temporarily_unavailable", error |-> error_msg]

\* model_attempts: the names, each as its '/'-separated parts
model_attempts == << <<"gemini-1.5-flash">>, <<"gemini-1.5-pro">>,
                     <<"gemini-pro">> >>

\* model.name.split('/')[-1]
model_short_name(name) == name[Len(name)]

\* what one generate_content call can do: answer with text, answer with
\* no text, or raise
Answers(text) == [kind |-> "text", text |-> text]
Raises(message) == [kind |-> "raises", text |-> message]

ErrorMessages ==
    { <<"4","0","0"," ","A","P","I","_","K","E","Y","_","I","N","V","A","L","I","D">>,
      <<"4","2","9"," ","Q","u","o","t","a"," ","e","x","c","e","e","d","e","d">>,
      <<"U","s","e","r"," ","l","o","c","a","t","i","o","n"," ","i","s"," ","n","o","t"," ","s","u","p","p","o","r","t","e","d">>,
      <<"t","i","m","e","o","u","t">> }

CallOutcomes ==
    {Answers(<<>>), Answers(<<"o","k">>), Answers(<<" ","h","i","\n">>)}
    \cup {Raises(m) : m \in ErrorMessages}

\* "if response.text:"
has_text(outcome) == outcome.kind = "text" /\ outcome.text # <<>>

\* what genai.list_models() can yield
ModelInfo(name, methods) == [name |-> name, methods |-> methods]
FlashInfo == ModelInfo(<<"models", "gemini-2.0-flash">>, {"generateContent"})
EmbedInfo == ModelInfo(<<"models", "embedding-001">>, {"embedContent"})
ProInfo == ModelInfo(<<"models", "gemini-2.0-pro">>, {"generateContent"})

\* "'generateContent' in model.supported_generation_methods"
supports_generation(model) == "generateContent" \in model.methods

Listings == { <<>>, <<FlashInfo>>, <<EmbedInfo, FlashInfo>>,
              <<FlashInfo, ProInfo>> }

\* the tables a summary is asked for: up to MaxRows rows, the i-th with a
\* name and an email of its own and the positions p, Q, p, r in turn
MaxRows == 4
SamplePositions == << <<"p">>, <<"Q">>, <<"p">>, <<"r">> >>
SampleName(i) == [k \in 1..i |-> "a"]
SampleEmail(i) == [k \in 1..i |-> "x"] \o <<"@","y",".","c","c">>
SampleTable(n) ==
    {Employee(i, SampleName(i), SampleEmail(i),
              SamplePositions[((i - 1) % Len(SamplePositions)) + 1], i)
        : i \in 1..n}

\* a call of get_ai_summary goes on
Step(next_pc) ==
    /\ pc' = next_pc
    /\ UNCHANGED <<employees, clock, req, resp, before, api_key, employees_data>>

\* get_ai_summary returns
Return(value) ==
    /\ summary' = value
    /\ Step("done")

\* get_ai_summary_route reads the table and calls get_ai_summary, which
\* returns at once without data or without a key
SummaryStart ==
    /\ pc = "idle"
    /\ employees_data' = query_all(employees)
    /\ pc' = IF employees = {} \/ ~api_key THEN "done" ELSE "fixed"
    /\ summary' = IF employees = {} THEN NoDataSummary
                  ELSE IF ~api_key THEN NoKeySummary ELSE summary
    /\ UNCHANGED <<employees, clock, req, resp, before, api_key, calls,
                   listed, remaining, last_error>>

\* "for attempt in model_attempts": one turn of the loop
TryFixed ==
    /\ pc = "fixed"
    /\ \E outcome \in CallOutcomes :
          LET attempt == model_attempts[Len(calls) + 1]
          IN  /\ calls' = Append(calls, [model |-> attempt[1], outcome |-> outcome])
              /\ last_error' = IF outcome.kind = "raises"
                               THEN outcome.text ELSE last_error
              /\ IF has_text(outcome)
                 THEN Return(TextSummary(outcome.text))
                 ELSE /\ Step(IF Len(calls) + 1 = Len(model_attempts)
                              THEN "list" ELSE "fixed")
                      /\ UNCHANGED summary
    /\ UNCHANGED <<listed, remaining>>

\* "available_models = genai.list_models()" and the model_names line: the
\* call raises, or yields models; what it yields is a one-shot iterator,
\* which the model_names line uses up, or a list
ListModels ==
    /\ pc = "list"
    /\ \/ \E m \in ErrorMessages :
             /\ listed' = [status |-> "raised", models |-> <<>>, error |-> m]
             /\ remaining' = <<>>
             /\ Step("fallback")
       \/ \E models \in Listings : \E one_shot \in BOOLEAN :
             /\ listed' = [status |-> "listed", models |-> models,
                            error |-> <<>>]
             /\ remaining' = IF one_shot THEN <<>> ELSE models
             /\ Step("available")
    /\ UNCHANGED <<calls, last_error, summary>>

\* "for model in available_models": one turn of the loop
TryAvailable ==
    /\ pc = "available"
    /\ remaining # <<>>
    /\ remaining' = Tail(remaining)
    /\ LET model == Head(remaining)
       IN  IF ~supports_generation(model)
           THEN /\ Step("available")
                /\ UNCHANGED <<calls, summary>>
           ELSE \E outcome \in CallOutcomes :
                   /\ calls' = Append(calls,
                                  [model |-> model_short_name(model.name),
                                   outcome |-> outcome])
                   /\ IF has_text(outcome)
                      THEN Return(TextSummary(outcome.text))
                      ELSE Step("available") /\ UNCHANGED summary
    /\ UNCHANGED <<listed, last_error>>

\* "Final fallback": no model is left to try
Fallback ==
    /\ pc = "fallback" \/ (pc = "available" /\ remaining = <<>>)
    /\ Return(FallbackSummary(employees_data))
    /\ UNCHANGED <<calls, listed, remaining, last_error>>

NextAI == SummaryStart \/ TryFixed \/ ListModels \/ TryAvailable \/ Fallback

\* a table of up to MaxRows rows, the key set or not, and one call
InitAI ==
    /\ \E n \in 0..MaxRows : employees = SampleTable(n) /\ clock = n
    /\ before = employees
    /\ req = NoRequest
    /\ resp = NoResponse
    /\ api_key \in BOOLEAN
    /\ NotSummarising

SpecAI == InitAI /\ [][NextAI]_vars

(* ---------------------------------------------------------------- claims *)
\* the request being answered and what it carried
Sent(key) == key \in DOMAIN req.data
Blank(key) == ~Sent(key) \/ strip(req.data[key]) = <<>>
Unchanged == employees = before
Status(code) == resp.status = code

\* C1: whatever requests were served and however they ended, no two
\* distinct rows of the table hold the same email
C1_NoTwoRowsShareEmail ==
    \A r1 \in employees : \A r2 \in employees :
        r1.id # r2.id => r1.email # r2.email

\* a second row was asked to take the email another row holds, differing
\* from it only in letter case, and both rows are still there
C1_Witness ==
    /\ req.op \in {"create", "update"}
    /\ Sent("email")
    /\ Status(500)
    /\ Cardinality(employees) >= 2
    /\ \E r \in before : r.email = lower(strip(req.data["email"]))
                         /\ r.email # req.data["email"]

\* C2: no two distinct rows hold the same name (exact equality), hence no
\* name is held with two different positions
C2_NoTwoRowsShareName ==
    \A r1 \in employees : \A r2 \in employees :
        r1.id # r2.id => r1.name # r2.name

\* a PUT asked to rename a row to the name of another row was refused,
\* and both rows are still there
C2_Witness ==
    /\ req.op = "update"
    /\ Sent("name")
    /\ Status(409)
    /\ Cardinality(employees) >= 2
    /\ \E r \in before : r.id # req.id /\ r.name = strip(req.data["name"])

\* C3: a POST, or a PUT on a different row, whose body passes
\* validate_employee_data and whose email equals the stored email of a row,
\* letter case ignored, is answered 409 and leaves the table as it was
C3_DuplicateEmailIs409 ==
    LET clash(others) ==
            /\ Sent("email")
            /\ \E r \in others : lower(r.email) = lower(req.data["email"])
        posted ==
            /\ req.op = "create"
            /\ DOMAIN req.data # {}
            /\ validate_employee_data(before, req.data, TRUE, 0) = NoErrors
            /\ clash(before)
        put ==
            /\ req.op = "update"
            /\ req.id \in ids(before)
            /\ validate_employee_data(before, req.data, FALSE, req.id) = NoErrors
            /\ clash({r \in before : r.id # req.id})
    IN  posted \/ put => Status(409) /\ Unchanged

\* C4: a POST with valid fields whose trimmed name a row already holds with
\* a different position (trimmed, letter case ignored) is answered 409 with
\* an error naming that row's position, and adds no row
C4_NameWithOtherPositionIs409 ==
    \A r \in before :
        /\ req.op = "create"
        /\ DOMAIN req.data # {}
        /\ field_errors(req.data, TRUE) = NoErrors
        /\ r.name = strip(req.data["name"])
        /\ lower(r.position) # lower(strip(req.data["position"]))
        => /\ Status(409)
           /\ \E i \in 1..Len(resp.errors) :
                 resp.errors[i] = NameConflict(r.position)
           /\ Unchanged

\* C5: a POST in which name, email or position is missing, empty or only
\* whitespace, or whose email the pattern rejects, is answered 400 and adds
\* no row, whatever the table holds
C5_InvalidCreateIs400 ==
    /\ req.op = "create"
    /\ \/ Blank("name") \/ Blank("email") \/ Blank("position")
       \/ ~validate_email(req.data["email"])
    => Status(400) /\ Unchanged

\* a POST with every field filled in but an email the pattern rejects,
\* refused while the table holds a row
C5_Witness ==
    /\ req.op = "create"
    /\ ~Blank("name") /\ ~Blank("email") /\ ~Blank("position")
    /\ ~validate_email(req.data["email"])
    /\ Status(400)
    /\ before # {}

\* C6: a POST answered 201 adds exactly one row, under an id no other row
\* holds, with the trimmed name, the trimmed position and the trimmed,
\* lowercased email of the request; that row is returned and the rows that
\* were there are unchanged
C6_CreatedRow ==
    req.op = "create" /\ Status(201) =>
        /\ Len(resp.data) = 1
        /\ LET row == resp.data[1]
           IN  /\ row \notin before
               /\ row.id \notin ids(before)
               /\ employees = before \cup {row}
               /\ row.name = strip(req.data["name"])
               /\ row.position = strip(req.data["position"])
               /\ row.email = lower(strip(req.data["email"]))

\* a POST whose name, position and email all needed trimming or
\* lowercasing, answered 201 while the table held another row
C6_Witness ==
    /\ req.op = "create"
    /\ Status(201)
    /\ before # {}
    /\ req.data["name"] # strip(req.data["name"])
    /\ req.data["position"] # strip(req.data["position"])
    /\ req.data["email"] # lower(strip(req.data["email"]))

\* C7: a PUT on an existing row whose body carries that row's own current
\* name and/or its own current email, with any valid position, is not
\* refused as a name or an email conflict: it is answered 200
C7_OwnValuesAreNoConflict ==
    /\ req.op = "update"
    /\ req.id \in ids(before)
    /\ Sent("name") \/ Sent("email")
    /\ Sent("name") => req.data["name"] = query_get(before, req.id).name
    /\ Sent("email") => req.data["email"] = query_get(before, req.id).email
    /\ Sent("position") => /\ ~Blank("position")
                           /\ Len(req.data["position"]) <= MaxPositionLen
    => Status(200)

\* a PUT that keeps the row's name and email and moves it to another
\* position, answered 200 while the table holds a second row
C7_Witness ==
    /\ req.op = "update"
    /\ req.id \in ids(before)
    /\ Sent("name") /\ Sent("email") /\ Sent("position")
    /\ req.data["name"] = query_get(before, req.id).name
    /\ req.data["email"] = query_get(before, req.id).email
    /\ lower(strip(req.data["position"]))
         # lower(query_get(before, req.id).position)
    /\ Cardinality(before) >= 2
    /\ Status(200)

\* C8: get, PUT and delete on an id no row holds, never created or already
\* deleted, are answered 404 and leave the table as it was, whatever the
\* body of the PUT
C8_AbsentIdIs404 ==
    /\ req.op \in {"get", "update", "delete"}
    /\ req.id \notin ids(before)
    => Status(404) /\ Unchanged

\* a PUT with a complete, valid body on an id no row holds, answered 404
\* while the table holds another row
C8_Witness ==
    /\ req.op = "update"
    /\ req.id \notin ids(before)
    /\ before # {}
    /\ field_errors(req.data, TRUE) = NoErrors
    /\ Status(404)

\* C9: delete on the id of a row is answered 200 and removes that row and
\* no other; from then on get on that id is answered 404, and the id comes
\* back into the table only by a POST answered 201 that is given that id
C9_DeleteRemovesThatRow ==
    /\ req.op = "delete" /\ req.id \in ids(before)
       => /\ Status(200)
          /\ employees = before \ {query_get(before, req.id)}
          /\ req.id \notin ids(employees)
    /\ req.op = "get" /\ req.id \notin ids(before) => Status(404)
    /\ \A id \in ids(employees) \ ids(before) :
          /\ req.op = "create"
          /\ Status(201)
          /\ resp.data[1].id = id

\* a delete answered 200 that left another row in the table
C9_Witness ==
    /\ req.op = "delete"
    /\ req.id \in ids(before)
    /\ Status(200)
    /\ employees # {}

\* C10: list is answered 200 with exactly the rows of the table, in the
\* order of their creation, and a count equal to the number of rows
\* returned; it leaves the table as it was
C10_ListInCreationOrder ==
    req.op = "list" =>
        /\ Status(200)
        /\ Unchanged
        /\ resp.count = Len(resp.data)
        /\ Len(resp.data) = Cardinality(employees)
        /\ {resp.data[i] : i \in 1..Len(resp.data)} = employees
        /\ \A i \in 1..Len(resp.data) : \A j \in 1..Len(resp.data) :
              i < j => resp.data[i].created_at < resp.data[j].created_at

\* a list of two rows
C10_Witness ==
    /\ req.op = "list"
    /\ Status(200)
    /\ Len(resp.data) >= 2

\* C12: a POST, PUT or delete answered 400, 404, 409 or 500 leaves the table
\* exactly as it was, also when the write fails at commit
C12_FailedWriteChangesNothing ==
    /\ req.op \in {"create", "update", "delete"}
    /\ resp.status \in {400, 404, 409, 500}
    => Unchanged

\* a PUT whose write the unique index refused at commit, answered 500
\* while the table holds two rows
C12_Witness ==
    /\ req.op = "update"
    /\ Status(500)
    /\ resp.errors = <<Err("integrity_error")>>
    /\ Cardinality(before) >= 2

\* C15: every stored row has a non-empty name, a non-empty position and a
\* non-empty email that matches the pattern; a PUT that sends a blank name,
\* email or position stores no blank value
C15_NoBlankValueStored ==
    \A r \in employees :
        /\ r.name # <<>>
        /\ r.position # <<>>
        /\ r.email # <<>>
        /\ validate_email(r.email)

\* C11: every stored row has a name of at most 100 characters, an email of
\* at most 120 and a position of at most 100; a POST, or a PUT on an
\* existing row, that would store a longer value is answered 400
C11_StoredLengths ==
    /\ \A r \in employees :
          /\ Len(r.name) <= MaxNameLen
          /\ Len(r.email) <= MaxEmailLen
          /\ Len(r.position) <= MaxPositionLen
    /\ /\ req.op = "create" \/ (req.op = "update" /\ req.id \in ids(before))
       /\ \/ Sent("name") /\ Len(strip(req.data["name"])) > MaxNameLen
          \/ Sent("email") /\ Len(lower(strip(req.data["email"]))) > MaxEmailLen
          \/ Sent("position")
               /\ Len(strip(req.data["position"])) > MaxPositionLen
       => Status(400)

\* one call of get_ai_summary has returned after asking the service
Summarised == pc = "done" /\ summary.kind \in {"text", "fallback"}

\* the i-th call got text
GotText(i) == has_text(calls[i].outcome)

\* the listed models that support generation, by the name they are called by
Supporting ==
    LET models == SelectSeq(listed.models, supports_generation)
    IN  [i \in 1..Len(models) |-> model_short_name(models[i].name)]

\* the models called after the fixed ones
CalledAvailable ==
    [i \in 1..(Len(calls) - Len(model_attempts)) |->
        calls[i + Len(model_attempts)].model]

\* C13: with employees and a key, get_ai_summary calls the fixed models in
\* their order and returns the stripped text of the first call that has
\* text, calling no model after it; it lists the models only when every
\* fixed model raised or had no text, and then calls the listed models
\* that support generation in their order; it returns the templated
\* paragraph only when every such model was called and none had text; it
\* always returns a value and never raises.
C13_ModelsTriedInOrder ==
    Summarised =>
        /\ \A i \in 1..Len(calls) :
              /\ i <= Len(model_attempts) => calls[i].model = model_attempts[i][1]
              /\ GotText(i) =>
                    i = Len(calls) /\ summary = TextSummary(calls[i].outcome.text)
        /\ listed.status # "none" =>
              /\ Len(calls) >= Len(model_attempts)
              /\ \A i \in 1..Len(model_attempts) : ~GotText(i)
        /\ listed.status = "listed" =>
              /\ Len(CalledAvailable) <= Len(Supporting)
              /\ CalledAvailable = SubSeq(Supporting, 1, Len(CalledAvailable))
        /\ summary.kind = "fallback" =>
              /\ listed.status # "none"
              /\ \A i \in 1..Len(calls) : ~GotText(i)
              /\ listed.status = "listed" => CalledAvailable = Supporting
        /\ summary.kind = "text" => Len(calls) > 0 /\ GotText(Len(calls))

\* every call the service was asked raised this message
AllRaised(message) ==
    /\ calls # <<>>
    /\ \A i \in 1..Len(calls) : calls[i].outcome = Raises(message)
    /\ listed.status = "raised" /\ listed.error = message

\* C14: when the service fails with a message that names an invalid key, a
\* quota or a region, get_ai_summary returns the message for that failure.
C14_FailureModeMessage ==
    \A m \in ErrorMessages :
        (pc = "done" /\ AllRaised(m)
            /\ user_message(m).kind # "temporarily_unavailable")
        => summary = user_message(m)

====
